---------------------------- MODULE Spec2Model ----------------------------
(***************************************************************************)
(* Value binding of the form input controls (client_code/components/      *)
(* FormInputs.py) and row patch-back of the grid view (client_code/       *)
(* components/GridView.py).                                                *)
(*                                                                         *)
(* One input control is modelled at a time; its class is chosen in Init   *)
(* (kind).  The toolkit widget behind a control is modelled by the         *)
(* properties the Python code reads and writes: its value (wval) and its   *)
(* enabled flag (wen).  A property keeps what was last assigned to it.     *)
(***************************************************************************)
EXTENDS Integers, Sequences, FiniteSets, TLC

VARIABLES
    kind,       \* the control's class
    select,     \* DropdownInput.select: "single" | "multi"
    hasCb,      \* on_change is not None
    cval,       \* self._value
    cen,        \* self._enabled
    visible,    \* self.visible
    ctl,        \* self._control: 0 is None, otherwise the id of the widget
    wval,       \* control.value / control.checked / the signature drawn
    wen,        \* control.enabled (CheckBox: not control.disabled)
    rctl,       \* RadioButtonInput: the options hold a 'control'
    rchk,       \* RadioButtonInput: values of the options whose widget is checked
    message,    \* InlineMessage.message
    dom,        \* innerHTML of the control's container: "" or "html"
    nCreated,   \* number of widgets constructed so far
    nDestroyed, \* number of widgets whose destroy() was called so far
    options,    \* LookupInput: the uids of the items of the widget's list, in order
    op,         \* the last operation: its name, its argument and what it returned
    prev,       \* the name of the operation before it
    c2,         \* progress through show; set value; set enabled; hide; show
    gstate,     \* GridView: "Built" | "Shown" | "Destroyed"
    filters,    \* self.search_queries, self.filters: the contents the view shows
    fx,         \* what the last grid event handler did
    store,      \* the backing model: uid -> content of the record, 0 when absent
    rows,       \* the grid's data source: a sequence of row views
    nextUid,    \* the uid the next created record gets
    gop,        \* the last grid operation
    call,       \* GridView(...) or get_model_attribute(...): the arguments
    gv,         \* what the call made or returned
    shared,     \* the lists and the view_config that the caller and the module own
    nBuilt,     \* GridViews constructed so far from them
    edit,       \* the edit of a grid cell under way
    storage,    \* FileUploadInput: storage_config['type']
    files,      \* FileUploadInput: self._value, the descriptors of the uploaded files
    stored,     \* the keys the object store holds
    nextKey,    \* the uuid the next key gets
    fop         \* the last event of the upload widget and what its handler did

fieldVars == <<kind, select, hasCb, cval, cen, visible, ctl, wval, wen, rctl, rchk,
               message, dom, nCreated, nDestroyed, options, op, prev, c2>>
gridVars == <<gstate, filters, fx, store, rows, nextUid, gop>>
buildVars == <<call, gv, shared, nBuilt>>
editVars == <<edit>>
uploadVars == <<storage, files, stored, nextKey, fop>>
vars == <<fieldVars, gridVars, buildVars, editVars, uploadVars>>

---------------------------------------------------------------------------
(* Bounds *)

MaxWidgets == 4     \* widgets one control may construct in a run
MaxUid == 2         \* records the backing model may ever hold
MaxPath == 3        \* segments of the longest column path
MaxNewItems == 1    \* records the add-item form of a LookupInput may create
MaxFiles == 3       \* files the user selects for upload
MaxBuilds == 2      \* GridViews constructed one after the other

---------------------------------------------------------------------------
(* Values.  Every Python or JS value is a record [t, n]: t its type, n its  *)
(* content.                                                                 *)
(*   null   None                                                            *)
(*   val    a text, a number, an option value, a signature payload          *)
(*   bool   n = 1 for True                                                  *)
(*   date   datetime.date, n = days since 1970-01-01                        *)
(*   dt     naive datetime.datetime, n = milliseconds since 1970-01-01      *)
(*   dstr   ISO text of the date n;  dtstr  ISO text of the datetime n      *)
(*   ts     JS Date, n = getTime()                                          *)
(*   opt    option object {name, uid} with uid n;  uid  the identifier n    *)
(*   opts   list of option objects, uids   list of identifiers;             *)
(*          n has bit 2^(u-1) set when uid u is in the list                 *)
(*   list   a list of n file descriptors                                    *)
(*   error  the operation raised                                            *)

V(t, n) == [t |-> t, n |-> n]
Null == V("null", 0)
Error == V("error", 0)

\* Strings that are no ISO date or time, and the ValueError that
\* date.fromisoformat and datetime.fromisoformat raise for one: its message
\* holds the string.
Unparseable == {V("bad", 1), V("bad", 2)}
ValueError(v) == V("ValueError", v.n)
Bool(b) == V("bool", IF b THEN 1 ELSE 0)

MsPerSec == 1000
DayMs == 24 * 60 * 60 * MsPerSec
MinuteMs == 60 * MsPerSec

Kinds == {"Text", "Date", "DateTime", "Time", "Checkbox", "Radio", "Dropdown",
          "Lookup", "Signature", "FileUpload", "InlineMessage"}

\* Python truth value of a value: None, False and the empty list are false.
Truthy(v) ==
    /\ v.t # "null"
    /\ ~(v.t = "bool" /\ v.n = 0)
    /\ ~(v.t \in {"opts", "uids", "list"} /\ v.n = 0)

\* The values of the options of a RadioButtonInput.
RadioValues == {1, 2}

\* The option list a LookupInput is constructed with (self._options), and
\* the uids of the records its add-item form may create.
HeldOptions == <<1, 2>>
NewUids == 3..(2 + MaxNewItems)

Elems(seq) == {seq[i] : i \in DOMAIN seq}

\* A list of uids is the sum of Bit(u) over its members.
Bit(u) == 2 ^ (u - 1)
Has(n, u) == (n \div Bit(u)) % 2 = 1

\* The members of an identifier list that are uids of the options opts.
RECURSIVE HeldFrom(_, _, _)
HeldFrom(opts, n, u) ==
    IF u > 2 + MaxNewItems THEN 0
    ELSE (IF u \in Elems(opts) /\ Has(n, u) THEN Bit(u) ELSE 0) + HeldFrom(opts, n, u + 1)
HeldMask(opts, n) == HeldFrom(opts, n, 1)

\* The values a caller passes to the constructor or to the value setter.
Inputs(k, sel) ==
    CASE k = "Text" -> {Null, V("val", 1), V("val", 2)}
      [] k = "Date" -> {Null, V("date", 1), V("dstr", 2), V("ts", 2 * DayMs)}
      [] k = "DateTime" -> {Null, V("dt", 1000), V("dt", 2500), V("dtstr", 3000)}
      [] k = "Time" -> {Null, V("dt", MinuteMs), V("dt", 2 * MinuteMs + 1500)}
      [] k = "Checkbox" -> {Null, Bool(FALSE), Bool(TRUE)}
      [] k = "Radio" -> {Null, V("val", 1), V("val", 2)}
      [] k = "Dropdown" -> IF sel = "single"
                           THEN {Null, V("val", 1), V("val", 2)}
                           ELSE {Null, V("uids", 1), V("opts", 3)}
      [] k = "Lookup" -> IF sel = "single"
                         THEN {Null, V("opt", 1), V("opt", 2)}
                         ELSE {Null, V("opts", 1), V("opts", 3)}
      [] k = "Signature" -> {Null, V("val", 1), V("val", 2)}
      [] k = "FileUpload" -> {V("list", 0), V("list", 1)}
      [] k = "InlineMessage" -> {Null, V("val", 1), V("val", 2)}

\* The values the user can give the widget.
UserInputs(k, sel) ==
    CASE k = "Text" -> {Null, V("val", 1), V("val", 2)}
      [] k = "Date" -> {Null, V("ts", DayMs), V("ts", 2 * DayMs)}
      [] k = "DateTime" -> {Null, V("ts", 1000), V("ts", 2000)}
      [] k = "Time" -> {Null, V("ts", MinuteMs), V("ts", 2 * MinuteMs)}
      [] k = "Checkbox" -> {Bool(FALSE), Bool(TRUE)}
      [] k = "Radio" -> {V("val", 1), V("val", 2)}
      [] k = "Dropdown" -> {Null, V("val", 1), V("val", 2)}
      [] k = "Lookup" -> IF sel = "single"
                         THEN {Null, V("uid", 1), V("uid", 2)}
                         ELSE {Null, V("uids", 1), V("uids", 2)}
      [] k = "Signature" -> {V("val", 1), V("val", 2)}
      [] OTHER -> {}

\* The value of a widget that was just constructed.
NewWidgetValue(k) ==
    CASE k = "Checkbox" -> Bool(FALSE)
      [] k = "Signature" -> V("val", 0)
      [] OTHER -> Null

---------------------------------------------------------------------------
(* The state of one control as a record, so that the methods are operators *)
(* from state to state.  err is set when the method raised: the statements *)
(* after the raise are not executed.                                        *)

Cur ==
    [cval |-> cval, cen |-> cen, visible |-> visible, ctl |-> ctl, wval |-> wval,
     wen |-> wen, rctl |-> rctl, rchk |-> rchk, message |-> message, dom |-> dom,
     nCreated |-> nCreated, nDestroyed |-> nDestroyed, options |-> options,
     err |-> FALSE]

\* The result of a getter: the state it leaves and the value it returns.
Ret(st, res) == [st |-> st, res |-> res]

(* ---- value conversions of the date and time pickers ---- *)

\* DateInput.value setter: the date the input stands for.
DateFromInput(v) ==
    CASE v.t = "date" -> v
      [] v.t = "dstr" -> V("date", v.n)
      [] v.t = "ts" -> V("date", v.n \div DayMs)

\* DateInput.value setter: the JS Date given to the picker.
DateToWidget(d) == V("ts", d.n * DayMs)

\* DateInput.value getter: the date of the picker's JS Date.
DateFromWidget(w) == V("date", w.n \div DayMs)

\* DateTimeInput / TimeInput value setter: the datetime the input stands for.
DateTimeFromInput(v) ==
    CASE v.t = "dt" -> v
      [] v.t = "dtstr" -> V("dt", v.n)
      [] v.t = "ts" -> V("dt", v.n)

\* The timestamp with its milliseconds.
DateTimeToWidgetExact(d) == V("ts", d.n)

\* int(strftime('%s')) * 1000
DateTimeToWidget(d) == V("ts", (d.n \div MsPerSec) * MsPerSec)

\* datetime.fromtimestamp(getTime() / 1000)
DateTimeFromWidget(w) == V("dt", w.n)

\* datetime(1970, 1, 1, getHours(), getMinutes())
TimeFromWidget(w) == V("dt", ((w.n \div MinuteMs) % (24 * 60)) * MinuteMs)

(* ---- value setters ---- *)

BaseValueSet(st, v) ==
    IF st.ctl # 0 THEN [st EXCEPT !.wval = v] ELSE st

DateValueSet(st, v) ==
    IF v = Null
    THEN [st EXCEPT !.cval = Null, !.wval = IF st.ctl # 0 THEN Null ELSE @]
    ELSE IF v \in Unparseable THEN [st EXCEPT !.err = TRUE]
    ELSE LET d == DateFromInput(v) IN
         [st EXCEPT !.cval = d, !.wval = IF st.ctl # 0 THEN DateToWidget(d) ELSE @]

DateTimeValueSet(st, v) ==
    IF v = Null
    THEN [st EXCEPT !.cval = Null, !.wval = IF st.ctl # 0 THEN Null ELSE @]
    ELSE IF v \in Unparseable THEN [st EXCEPT !.err = TRUE]
    ELSE LET d == DateTimeFromInput(v) IN
         [st EXCEPT !.cval = d, !.wval = IF st.ctl # 0 THEN DateTimeToWidget(d) ELSE @]

CheckboxValueSet(st, v) ==
    [st EXCEPT !.cval = v, !.wval = IF st.ctl # 0 THEN v ELSE @]

\* Assigning checked = True to one radio button of a group unchecks the
\* other buttons of the group.
RadioCheck(chk, n) == {n}

RadioValueSet(st, v) ==
    [st EXCEPT !.cval = v,
               !.rchk = IF st.rctl /\ v.t = "val" /\ v.n \in RadioValues
                        THEN RadioCheck(@, v.n) ELSE @]

DropdownValueSet(st, v) ==
    [st EXCEPT !.cval = v, !.wval = IF st.ctl # 0 THEN v ELSE @]

LookupValueSet(sel, st, v) ==
    IF st.ctl # 0
    THEN IF Truthy(v)
         THEN [st EXCEPT !.wval = IF sel = "single" THEN V("uid", v.n) ELSE V("uids", v.n)]
         ELSE [st EXCEPT !.wval = Null]
    ELSE st

SignatureValueSet(st, v) ==
    [st EXCEPT !.cval = v, !.wval = IF st.ctl # 0 /\ v # Null THEN v ELSE @]

FileUploadValueSet(st, v) == [st EXCEPT !.cval = v]

\* getElementById(el_id) is None unless the container holds the html.
InlineMessageValueSet(st, v) ==
    [st EXCEPT !.message = v, !.err = (st.dom # "html")]

ValueSet(k, sel, st, v) ==
    CASE k = "Text" -> BaseValueSet(st, v)
      [] k = "Date" -> DateValueSet(st, v)
      [] k \in {"DateTime", "Time"} -> DateTimeValueSet(st, v)
      [] k = "Checkbox" -> CheckboxValueSet(st, v)
      [] k = "Radio" -> RadioValueSet(st, v)
      [] k = "Dropdown" -> DropdownValueSet(st, v)
      [] k = "Lookup" -> LookupValueSet(sel, st, v)
      [] k = "Signature" -> SignatureValueSet(st, v)
      [] k = "FileUpload" -> FileUploadValueSet(st, v)
      [] k = "InlineMessage" -> InlineMessageValueSet(st, v)

(* ---- value getters ---- *)

BaseValueGet(st) ==
    LET s == IF st.ctl # 0 THEN [st EXCEPT !.cval = st.wval] ELSE st
    IN Ret(s, s.cval)

DateValueGet(st) ==
    LET s == IF st.ctl # 0 /\ st.wval # Null
             THEN [st EXCEPT !.cval = DateFromWidget(st.wval)] ELSE st
    IN Ret(s, s.cval)

DateTimeValueGet(st) ==
    LET s == IF st.ctl # 0 /\ st.wval # Null
             THEN [st EXCEPT !.cval = DateTimeFromWidget(st.wval)] ELSE st
    IN Ret(s, s.cval)

TimeValueGet(st) ==
    LET s == IF st.ctl # 0 /\ st.wval # Null
             THEN [st EXCEPT !.cval = TimeFromWidget(st.wval)] ELSE st
    IN Ret(s, s.cval)

CheckboxValueGet(st) ==
    LET s == IF st.ctl # 0 THEN [st EXCEPT !.cval = st.wval] ELSE st
    IN Ret(s, s.cval)

\* The loop keeps the value of the last checked option.
RadioChecked(chk) == CHOOSE n \in chk : \A m \in chk : m <= n

RadioValueGet(st) ==
    LET s == IF st.rctl /\ st.rchk # {}
             THEN [st EXCEPT !.cval = V("val", RadioChecked(st.rchk))] ELSE st
    IN Ret(s, s.cval)

DropdownValueGet(st) ==
    LET s == IF st.ctl # 0 /\ st.wval # Null THEN [st EXCEPT !.cval = st.wval] ELSE st
    IN Ret(s, s.cval)

\* control.getDataByValue: the held option with that uid, None when there is none.
GetDataByValue(opts, u) == IF u \in Elems(opts) THEN V("opt", u) ELSE Null

LookupValueGet(sel, st) ==
    LET s == IF st.ctl # 0 /\ st.wval # Null
             THEN [st EXCEPT !.cval = IF sel = "single"
                                      THEN GetDataByValue(st.options, st.wval.n)
                                      ELSE V("opts", HeldMask(st.options, st.wval.n))]
             ELSE st
    IN Ret(s, s.cval)

\* Without a control the method ends without a return statement.
SignatureValueGet(st) ==
    IF st.ctl # 0
    THEN Ret([st EXCEPT !.cval = st.wval], st.wval)
    ELSE Ret(st, Null)

FileUploadValueGet(st) == Ret(st, st.cval)

InlineMessageValueGet(st) == Ret([st EXCEPT !.cval = st.message], st.message)

ValueGet(k, sel, st) ==
    CASE k = "Text" -> BaseValueGet(st)
      [] k = "Date" -> DateValueGet(st)
      [] k = "DateTime" -> DateTimeValueGet(st)
      [] k = "Time" -> TimeValueGet(st)
      [] k = "Checkbox" -> CheckboxValueGet(st)
      [] k = "Radio" -> RadioValueGet(st)
      [] k = "Dropdown" -> DropdownValueGet(st)
      [] k = "Lookup" -> LookupValueGet(sel, st)
      [] k = "Signature" -> SignatureValueGet(st)
      [] k = "FileUpload" -> FileUploadValueGet(st)
      [] k = "InlineMessage" -> InlineMessageValueGet(st)

(* ---- enabled ---- *)

BaseEnabledSet(st, e) ==
    [st EXCEPT !.cen = e, !.wen = IF st.ctl # 0 THEN e ELSE @]

\* control.disabled = not value
CheckboxEnabledSet(st, e) ==
    [st EXCEPT !.cen = e, !.wen = IF st.ctl # 0 THEN e ELSE @]

EnabledSet(k, st, e) ==
    IF k = "Checkbox" THEN CheckboxEnabledSet(st, e) ELSE BaseEnabledSet(st, e)

\* Without a control the method ends without a return statement.
BaseEnabledGet(st) ==
    IF st.ctl # 0
    THEN Ret([st EXCEPT !.cen = st.wen], Bool(st.wen))
    ELSE Ret(st, Null)

\* The method reads control.disbled, an attribute the CheckBox does not
\* have: the read raises, or it gives None and "not None" is True.
CheckboxEnabledGet(st, raises) ==
    IF st.ctl # 0
    THEN IF raises
         THEN Ret([st EXCEPT !.err = TRUE], Error)
         ELSE Ret([st EXCEPT !.cen = TRUE], Bool(TRUE))
    ELSE Ret(st, Null)

EnabledGet(k, st, raises) ==
    IF k = "Checkbox" THEN CheckboxEnabledGet(st, raises) ELSE BaseEnabledGet(st)

(* ---- create_control, show, hide, destroy ---- *)

\* Widgets one create_control constructs.
WidgetsOf(k) ==
    CASE k = "Radio" -> Cardinality(RadioValues)
      [] k = "InlineMessage" -> 0
      [] OTHER -> 1

\* create_control of the classes with one widget, and the control setter.
NewControl(k, st) ==
    [st EXCEPT !.ctl = st.nCreated + 1, !.nCreated = @ + 1,
               !.wval = NewWidgetValue(k), !.wen = TRUE,
               !.options = IF k = "Lookup" THEN HeldOptions ELSE @]

RadioCreateControl(sel, st) ==
    RadioValueSet([st EXCEPT !.rctl = TRUE, !.rchk = {},
                             !.nCreated = @ + Cardinality(RadioValues)],
                  st.cval)

CreateControl(k, sel, st) ==
    CASE k = "Radio" -> RadioCreateControl(sel, st)
      [] k = "InlineMessage" -> st
      [] OTHER -> NewControl(k, st)

\* show() without the test of self.visible.
ShowGuardOff(st) == TRUE

\* show() acts only on a control that is not visible.
ShowGuard(st) == ~st.visible

BaseShow(k, sel, st) ==
    IF ShowGuard(st)
    THEN LET s1 == [st EXCEPT !.dom = "html"]
             s2 == IF s1.ctl = 0 THEN CreateControl(k, sel, s1) ELSE s1
             s3 == ValueSet(k, sel, s2, s2.cval)
             s4 == [s3 EXCEPT !.visible = TRUE]
         IN IF s3.err THEN s3 ELSE EnabledSet(k, s4, s4.cen)
    ELSE st

RadioShow(sel, st) ==
    IF ShowGuard(st)
    THEN LET s1 == [st EXCEPT !.dom = "html"]
             s2 == RadioCreateControl(sel, s1)
             s3 == RadioValueSet(s2, s2.cval)
         IN [s3 EXCEPT !.visible = TRUE]
    ELSE st

InlineMessageShow(st) ==
    IF ShowGuard(st)
    THEN [st EXCEPT !.dom = "html", !.visible = TRUE]
    ELSE st

show(k, sel, st) ==
    CASE k = "Radio" -> RadioShow(sel, st)
      [] k = "InlineMessage" -> InlineMessageShow(st)
      [] OTHER -> BaseShow(k, sel, st)

hide(st) ==
    IF st.visible THEN [st EXCEPT !.dom = "", !.visible = FALSE] ELSE st

\* control.destroy(); self._control = None
destroy(st) ==
    IF st.ctl # 0
    THEN [st EXCEPT !.ctl = 0, !.wval = Null, !.wen = TRUE, !.nDestroyed = @ + 1,
                    !.options = IF @ = <<>> THEN @ ELSE HeldOptions]
    ELSE st

\* LookupInput.new_item(item, action), the update_source of the add-item
\* form; item is the uid of the new record, 0 when there is none.
\* control.addItem(option, 0) puts the option first in the widget's list;
\* control.index = 0 selects it.  Without a widget self.control.addItem
\* raises; control.value.append raises when control.value is None.
new_item(sel, st, item) ==
    IF item = 0 THEN st
    ELSE IF st.ctl = 0 THEN [st EXCEPT !.err = TRUE]
    ELSE LET s1 == [st EXCEPT !.options = <<item>> \o @] IN
         IF sel = "single" THEN [s1 EXCEPT !.wval = V("uid", item)]
         ELSE LET r == LookupValueGet(sel, s1) IN
              IF Truthy(r.res)
              THEN IF r.st.wval = Null
                   THEN [r.st EXCEPT !.err = TRUE]
                   ELSE [r.st EXCEPT !.wval = V("uids", @.n + Bit(item))]
              ELSE [r.st EXCEPT !.wval = V("uids", Bit(item))]

\* change(args), called by the widget: with a callback and a true
\* args.value the value getter runs.
change(k, sel, st, hascb, argval) ==
    IF hascb /\ Truthy(argval) THEN ValueGet(k, sel, st).st ELSE st

\* What change(args) passes to on_change as 'value'; NoCall when there is
\* no callback.
NoCall == V("nocall", 0)
ChangePayload(k, sel, st, hascb, argval) ==
    IF hascb
    THEN IF Truthy(argval) THEN ValueGet(k, sel, st).res ELSE Null
    ELSE NoCall

---------------------------------------------------------------------------
(* The input control as a state machine: one action per public operation   *)
(* and one for the user changing the widget.                                *)

Apply(st) ==
    /\ cval' = st.cval
    /\ cen' = st.cen
    /\ visible' = st.visible
    /\ ctl' = st.ctl
    /\ wval' = st.wval
    /\ wen' = st.wen
    /\ rctl' = st.rctl
    /\ rchk' = st.rchk
    /\ message' = st.message
    /\ dom' = st.dom
    /\ nCreated' = st.nCreated
    /\ nDestroyed' = st.nDestroyed
    /\ options' = st.options
    /\ UNCHANGED <<kind, select, hasCb>>

Done(name, arg, res) ==
    /\ op' = [name |-> name, arg |-> arg, res |-> res]
    /\ prev' = op.name
    /\ UNCHANGED <<gridVars, buildVars, editVars, uploadVars>>

C2Idle == [ph |-> 0, v |-> Null, e |-> TRUE]

\* Position in the sequence show; set value v; set enabled e; hide; show
\* after the operation name(arg), any other operation starting it over.
C2After(name, arg) ==
    CASE name = "show" /\ c2.ph = 4 -> [c2 EXCEPT !.ph = 5]
      [] name = "show" /\ c2.ph # 4 -> [C2Idle EXCEPT !.ph = 1]
      [] name = "set" /\ c2.ph = 1 -> [C2Idle EXCEPT !.ph = 2, !.v = arg]
      [] name = "setEnabled" /\ c2.ph = 2 -> [c2 EXCEPT !.ph = 3, !.e = (arg.n = 1)]
      [] name = "hide" /\ c2.ph = 3 -> [c2 EXCEPT !.ph = 4]
      [] OTHER -> C2Idle

FieldInit ==
    /\ kind \in Kinds
    /\ select \in (IF kind \in {"Dropdown", "Lookup"} THEN {"single", "multi"} ELSE {"single"})
    /\ hasCb \in BOOLEAN
    /\ cval \in (IF kind = "FileUpload" THEN {V("list", 0)} ELSE Inputs(kind, select))
    /\ cen \in BOOLEAN
    /\ visible = FALSE
    /\ ctl = 0
    /\ wval = Null
    /\ wen = TRUE
    /\ rctl = FALSE
    /\ rchk = {}
    /\ message \in (IF kind = "InlineMessage" THEN {Null, V("val", 1)} ELSE {Null})
    /\ dom = ""
    /\ nCreated = 0
    /\ nDestroyed = 0
    /\ options = (IF kind = "Lookup" THEN HeldOptions ELSE <<>>)
    /\ op = [name |-> "init", arg |-> Null, res |-> Null]
    /\ prev = "init"
    /\ c2 = C2Idle

SetValue ==
    \E v \in Inputs(kind, select) :
        LET st == ValueSet(kind, select, Cur, v) IN
        /\ Apply(st)
        /\ Done("set", v, IF st.err THEN Error ELSE Null)
        /\ c2' = IF st.err THEN C2Idle ELSE C2After("set", v)

GetValue ==
    LET r == ValueGet(kind, select, Cur) IN
    /\ Apply(r.st)
    /\ Done("get", Null, r.res)
    /\ c2' = C2After("get", Null)

SetEnabled ==
    \E e \in BOOLEAN :
        /\ Apply(EnabledSet(kind, Cur, e))
        /\ Done("setEnabled", Bool(e), Null)
        /\ c2' = C2After("setEnabled", Bool(e))

GetEnabled ==
    \E raises \in BOOLEAN :
        LET r == EnabledGet(kind, Cur, raises) IN
        /\ Apply([r.st EXCEPT !.err = FALSE])
        /\ Done("getEnabled", Null, r.res)
        /\ c2' = C2After("getEnabled", Null)

\* The show about to run constructs widgets.
Constructs == ~visible /\ (kind = "Radio" \/ ctl = 0)

Show ==
    /\ Constructs => nCreated + WidgetsOf(kind) <= MaxWidgets
    /\ LET st == show(kind, select, Cur) IN
       /\ Apply(st)
       /\ Done("show", Null, IF st.err THEN ValueError(cval) ELSE Null)
       /\ c2' = IF st.err THEN C2Idle ELSE C2After("show", Null)

Hide ==
    /\ Apply(hide(Cur))
    /\ Done("hide", Null, Null)
    /\ c2' = C2After("hide", Null)

Destroy ==
    /\ Apply(destroy(Cur))
    /\ Done("destroy", Null, Null)
    /\ c2' = C2After("destroy", Null)

\* args.value of the change event; the CheckBox and the Signature events
\* carry no value.
ChangeArg(k, w) == IF k \in {"Checkbox", "Signature"} THEN Null ELSE w

\* The user gives the widget shown in the container another value, and the
\* widget calls change().
UserChange ==
    /\ visible /\ dom = "html"
    /\ IF kind = "Radio" THEN rctl ELSE ctl # 0 /\ wen
    /\ \E w \in UserInputs(kind, select) :
        LET s1 == IF kind = "Radio"
                  THEN [Cur EXCEPT !.rchk = RadioCheck(@, w.n)]
                  ELSE [Cur EXCEPT !.wval = w]
        IN /\ Apply(change(kind, select, s1, hasCb, ChangeArg(kind, w)))
           /\ Done("user", w, ChangePayload(kind, select, s1, hasCb, ChangeArg(kind, w)))
           /\ c2' = C2After("user", w)

\* The add-item form of a LookupInput completes, with a new record or
\* with none.
NewItem ==
    /\ kind = "Lookup"
    /\ \E item \in {0} \cup {u \in NewUids : \A v \in NewUids \ Elems(options) : u <= v} :
        /\ item \notin Elems(options)
        /\ LET st == new_item(select, Cur, item) IN
           /\ Apply([st EXCEPT !.err = FALSE])
           /\ Done("new_item", IF item = 0 THEN Null ELSE V("uid", item),
                   IF st.err THEN Error ELSE Null)
           /\ c2' = C2Idle

\* The control of a date or a time is constructed, with a value that may
\* be a string that is no ISO date or time.
ConvInit ==
    /\ kind \in {"Date", "DateTime", "Time"}
    /\ select = "single"
    /\ hasCb \in BOOLEAN
    /\ cval \in Inputs(kind, select) \cup Unparseable
    /\ cen \in BOOLEAN
    /\ visible = FALSE
    /\ ctl = 0
    /\ wval = Null
    /\ wen = TRUE
    /\ rctl = FALSE
    /\ rchk = {}
    /\ message = Null
    /\ dom = ""
    /\ nCreated = 0
    /\ nDestroyed = 0
    /\ options = <<>>
    /\ op = [name |-> "init", arg |-> Null, res |-> Null]
    /\ prev = "init"
    /\ c2 = C2Idle

\* The value setter is given a string that is no ISO date or time.
SetUnparseable ==
    \E v \in Unparseable :
        LET st == ValueSet(kind, select, Cur, v) IN
        /\ Apply(st)
        /\ Done("set", v, IF st.err THEN ValueError(v) ELSE Null)
        /\ c2' = C2Idle

ConvNext ==
    \/ SetUnparseable
    \/ SetValue
    \/ GetValue
    \/ Show
    \/ Hide
    \/ Destroy

FieldNext ==
    \/ NewItem
    \/ SetValue
    \/ GetValue
    \/ SetEnabled
    \/ GetEnabled
    \/ Show
    \/ Hide
    \/ Destroy
    \/ UserChange

---------------------------------------------------------------------------
(* GridView: the rows bound to the grid, the backing model, and the row    *)
(* patch-back.  A record of the backing model is [uid, c]: its id and its  *)
(* content.                                                                 *)

Uids == 1..MaxUid
\* The contents a record may have; 0 stands for no record.
Contents == {1, 2}

Record(u, c) == [uid |-> u, c |-> c]

\* data_row.get_row_view(columns): the row view of a record.
get_row_view(data_row) == [uid |-> data_row.uid, c |-> data_row.c]

RECURSIVE GridRowsFrom(_, _, _)
GridRowsFrom(sto, flt, u) ==
    IF u > MaxUid THEN <<>>
    ELSE (IF sto[u] \in flt THEN <<get_row_view(Record(u, sto[u]))>> ELSE <<>>)
         \o GridRowsFrom(sto, flt, u + 1)

\* grid_class.get_grid_view(view_config, search_queries, filters): the row
\* views of the records of the backing model that pass the filters, in the
\* model's order.
get_grid_view(sto, flt) == GridRowsFrom(sto, flt, 1)

\* grid.addRecord(row): the row is added at the top of the data source.
addRecord(rws, row) == <<row>> \o rws

\* grid.setRowData(key, row): the first row with that primary key is
\* replaced; nothing happens when no row has it.
setRowData(rws, key, row) ==
    [i \in DOMAIN rws |->
        IF rws[i].uid = key /\ \A j \in 1..(i - 1) : rws[j].uid # key
        THEN row ELSE rws[i]]

\* update_grid with the two branches of add_new exchanged.
update_grid_swapped(rws, sto, data_row, add_new) ==
    LET grid_row == get_row_view(data_row) IN
    IF add_new THEN setRowData(rws, grid_row.uid, grid_row) ELSE addRecord(rws, grid_row)

\* update_grid fetching the other rows again before it adds the new one.
update_grid_reload(rws, sto, data_row, add_new) ==
    LET grid_row == get_row_view(data_row) IN
    IF add_new
    THEN addRecord(get_grid_view([sto EXCEPT ![data_row.uid] = 0], Contents), grid_row)
    ELSE setRowData(rws, grid_row.uid, grid_row)

\* GridView.update_grid(data_row, add_new) on the rows rws of the grid;
\* sto is the backing model, which the method does not read.
update_grid(rws, sto, data_row, add_new) ==
    LET grid_row == get_row_view(data_row) IN
    IF add_new THEN addRecord(rws, grid_row) ELSE setRowData(rws, grid_row.uid, grid_row)

\* No form: form_data = None, or no form opened.
NoRecord == [uid |-> 0, c |-> 0]

\* What a grid event handler did: the event (type, req, id), whether a form
\* <model>Form is registered (reg), whether the built-in dialog was closed,
\* the forms opened, the search button hidden, the rows selected for delete
\* (sel), those of them that did not resolve (skipped), whether a call of
\* the backing model raised (failed), and the handler of the caller that was
\* called ("": none).
NoFx ==
    [type |-> "", req |-> "", id |-> "", reg |-> FALSE, closed |-> FALSE,
     opened |-> <<>>, search |-> FALSE, sel |-> {}, skipped |-> {}, failed |-> FALSE,
     called |-> ""]

GOp(name, u, c, isNew) ==
    /\ gop' = [name |-> name, uid |-> u, c |-> c, isNew |-> isNew]
    /\ UNCHANGED <<fieldVars, filters, buildVars, editVars, uploadVars>>

GDone(name, u, c, isNew) ==
    /\ GOp(name, u, c, isNew)
    /\ fx' = NoFx

\* The backing model holds records 1..n when the grid is constructed;
\* grid_data is the empty list.
GridInit ==
    /\ gstate = "Built"
    /\ \E n \in 0..(MaxUid - 1) :
        /\ store \in {f \in [Uids -> ({0} \cup Contents)] : \A u \in Uids : (f[u] # 0) <=> (u <= n)}
        /\ nextUid = n + 1
    /\ rows = <<>>
    /\ filters \in {Contents, {1}}
    /\ fx = NoFx
    /\ gop = [name |-> "init", uid |-> 0, c |-> 0, isNew |-> FALSE]

\* form_show showing every record, whatever the filters.
form_show_rows_unfiltered(sto, flt) == get_grid_view(sto, Contents)

\* form_show, lines 235-239: the rows fetched with the configured search
\* queries and filters become the grid's data source.
form_show_rows(sto, flt) == get_grid_view(sto, flt)

\* GridView.form_show: fetch the rows, make them the data source and mount
\* the grid.  The fetch may raise (fetched = FALSE): nothing after it runs.
\* What a destroyed grid does when it is given a data source and mounted
\* again is the toolkit's: it takes them, or it raises (accepts = FALSE).
form_show ==
    \E fetched \in BOOLEAN, accepts \in BOOLEAN :
        /\ gstate # "Destroyed" => accepts
        /\ ~fetched => accepts
        /\ rows' = IF fetched /\ accepts THEN form_show_rows(store, filters) ELSE rows
        /\ gstate' = IF fetched /\ accepts THEN "Shown" ELSE gstate
        /\ UNCHANGED <<store, nextUid>>
        /\ GDone(IF ~fetched THEN "form_show_failed"
                 ELSE IF accepts THEN "form_show" ELSE "form_show_refused", 0, 0, FALSE)

\* The edit form opened for 'add' saves a new record and calls
\* update_source(record, True).
FormSubmitAdd ==
    /\ gstate = "Shown"
    /\ nextUid <= MaxUid
    /\ \E c \in Contents :
        /\ store' = [store EXCEPT ![nextUid] = c]
        /\ rows' = update_grid(rows, store', Record(nextUid, c), TRUE)
        /\ GDone("update_grid", nextUid, c, TRUE)
    /\ nextUid' = nextUid + 1
    /\ UNCHANGED gstate

\* The edit form opened for the record u saves it and calls
\* update_source(record, False).
FormSubmitEdit ==
    /\ gstate = "Shown"
    /\ \E u \in Uids, c \in Contents :
        /\ store[u] # 0
        /\ store' = [store EXCEPT ![u] = c]
        /\ rows' = update_grid(rows, store', Record(u, c), FALSE)
        /\ GDone("update_grid", u, c, FALSE)
    /\ UNCHANGED <<gstate, nextUid>>

\* Another session changes or deletes a record of the backing model.
OtherSession ==
    /\ \E u \in Uids, c \in ({0} \cup Contents) :
        /\ store[u] # 0
        /\ store[u] # c
        /\ store' = [store EXCEPT ![u] = c]
        /\ GDone("other", 0, 0, FALSE)
    /\ UNCHANGED <<gstate, rows, nextUid>>

(* ---- the grid's events ---- *)

\* A handler that acts on both events of an action.
GuardCompleteOff(type) == TRUE

\* grid_action_handler acts on the actionComplete event only.
GuardComplete(type) == type = "actionComplete"

\* grid_class.get(uid): the record, None when the model has none.
get(sto, u) == IF sto[u] # 0 THEN Record(u, sto[u]) ELSE NoRecord

\* add_edit_row(args): the form it opens.  req is args.requestType ("" when
\* args is None), u the uid of args.rowData, reg whether app_forms has
\* <model>Form.
add_edit_row(req, u, sto, reg) ==
    [cls |-> IF reg THEN "ModelForm" ELSE "FormBase",
     action |-> IF req = "beginEdit" THEN "edit" ELSE "add",
     data |-> IF req = "beginEdit" THEN get(sto, u) ELSE NoRecord,
     update_source |-> "update_grid"]

\* The selected rows, in the order of the grid: args.data.
SelectedRows(rws, sel) == SelectSeq(rws, LAMBDA r : r.uid \in sel)

\* The delete loop stopping at the first row that does not resolve.
RECURSIVE delete_rows_break(_, _, _)
delete_rows_break(sto, data, failAt) ==
    IF data = <<>> \/ failAt = 1 \/ sto[Head(data).uid] = 0 THEN sto
    ELSE delete_rows_break([sto EXCEPT ![Head(data).uid] = 0], Tail(data),
                           IF failAt = 0 THEN 0 ELSE failAt - 1)

\* grid_action_handler, 'delete': for each row of args.data the record is
\* fetched and, when it is not None, deleted.  The call of the backing
\* model for row failAt raises (failAt = 0: none does), which ends the loop.
RECURSIVE delete_rows(_, _, _)
delete_rows(sto, data, failAt) ==
    IF data = <<>> \/ failAt = 1 THEN sto
    ELSE delete_rows(IF sto[Head(data).uid] # 0
                     THEN [sto EXCEPT ![Head(data).uid] = 0] ELSE sto,
                     Tail(data), IF failAt = 0 THEN 0 ELSE failAt - 1)

RowRequests == {"beginEdit", "add", "save"}
EventTypes == {"actionBegin", "actionComplete"}

\* The grid delivers actionBegin or actionComplete of a begin-edit, an add
\* or a save to grid_action_handler; the events of a begin-edit carry the row
\* edited (args.rowData).  getFails: grid_class.get raises.
GridAction ==
    /\ gstate = "Shown"
    /\ \E type \in EventTypes, req \in RowRequests, i \in 0..Len(rows),
          reg \in BOOLEAN, getFails \in BOOLEAN :
        LET u == IF i = 0 THEN 0 ELSE rows[i].uid
            acts == GuardComplete(type) /\ req \in {"beginEdit", "add"}
            failed == acts /\ req = "beginEdit" /\ getFails
        IN /\ (i # 0) = (req = "beginEdit")
           /\ ~acts => (~reg /\ ~getFails)
           /\ req # "beginEdit" => ~getFails
           /\ fx' = [NoFx EXCEPT
                        !.type = type, !.req = req, !.reg = reg,
                        !.closed = acts,
                        !.opened = IF acts /\ ~failed
                                   THEN <<add_edit_row(req, u, store, reg)>> ELSE <<>>,
                        !.failed = failed]
           /\ GOp("row_action", u, 0, FALSE)
    /\ UNCHANGED <<gstate, store, rows, nextUid>>

\* The grid has removed the selected rows and delivers actionComplete of
\* the delete to grid_action_handler.
GridDelete ==
    /\ gstate = "Shown"
    /\ \E sel \in (SUBSET {rows[i].uid : i \in 1..Len(rows)}) \ {{}} :
        \E failAt \in 0..Cardinality(sel) :
            LET data == SelectedRows(rows, sel) IN
            /\ rows' = SelectSeq(rows, LAMBDA r : r.uid \notin sel)
            /\ store' = delete_rows(store, data, failAt)
            /\ fx' = [NoFx EXCEPT
                         !.type = "actionComplete", !.req = "delete", !.sel = sel,
                         !.skipped = {u \in sel : store[u] = 0},
                         !.failed = (failAt # 0)]
            /\ GOp("delete", 0, 0, FALSE)
    /\ UNCHANGED <<gstate, nextUid>>

\* The ids of the toolbar items: the two default items and two the caller
\* configured.
ToolbarIds == {"add", "search-on", "export", "print"}

\* GridView.toolbar_click(args).
ToolbarClick ==
    /\ gstate = "Shown"
    /\ \E id \in ToolbarIds, reg \in BOOLEAN :
        /\ id # "add" => ~reg
        /\ fx' = [NoFx EXCEPT
                     !.type = "toolbarClick", !.id = id, !.reg = reg,
                     !.opened = IF id = "add"
                                THEN <<add_edit_row("", 0, store, reg)>> ELSE <<>>,
                     !.search = (id = "search-on")]
        /\ GOp("toolbar_click", 0, 0, FALSE)
    /\ UNCHANGED <<gstate, store, rows, nextUid>>

\* GridView.destroy.
GridDestroy ==
    /\ gstate' = "Destroyed"
    /\ UNCHANGED <<store, rows, nextUid>>
    /\ GDone("destroy", 0, 0, FALSE)

GridNext ==
    \/ form_show
    \/ FormSubmitAdd
    \/ FormSubmitEdit
    \/ OtherSession
    \/ GridAction
    \/ GridDelete
    \/ ToolbarClick
    \/ GridDestroy

---------------------------------------------------------------------------
(* GridView construction and the resolution of column paths                *)

\* AppEnv.data_models: Order has the attributes name and amount, the
\* computed attribute total and the relationship customer to Customer;
\* Customer has the attribute name and the relationship owner to User; User
\* has the attribute name.  Dictionaries are sequences in insertion order.
Classes == {"Order", "Customer", "User"}
Attributes(cls) == IF cls = "Order" THEN <<"name", "amount">> ELSE <<"name">>
Computes(cls) == IF cls = "Order" THEN <<"total">> ELSE <<>>
Relationships(cls) ==
    CASE cls = "Order" -> <<[name |-> "customer", class_name |-> "Customer"]>>
      [] cls = "Customer" -> <<[name |-> "owner", class_name |-> "User"]>>
      [] OTHER -> <<>>

\* cls._title: the title of Customer is t, a plain attribute or a dotted
\* reference; a string is the sequence of its dot-separated segments.
Titles == {<<"name">>, <<"owner", "name">>}
Title(cls, t) == IF cls = "Customer" THEN t ELSE <<"name">>

Attr(k, cls, name) == [kind |-> k, cls |-> cls, name |-> name]
NoAttr == Attr("none", "", "")

\* get_model_attribute(class_name, attr_name): the attribute found (NoAttr
\* for None) and the name, which is a list when it was split at the dots.
RECURSIVE get_model_attribute(_, _, _)
get_model_attribute(class_name, attr_name, t) ==
    LET name == IF attr_name = <<"_title">> THEN Title(class_name, t) ELSE attr_name
        head == name[1]
        rels == {r \in Elems(Relationships(class_name)) : r.name = head}
        attr ==
            IF Len(name) = 1
            THEN IF head \in Elems(Attributes(class_name))
                 THEN Attr("attribute", class_name, head)
                 ELSE IF head \in Elems(Computes(class_name))
                 THEN Attr("compute", class_name, head)
                 ELSE NoAttr
            ELSE IF head \in Elems(Attributes(class_name))
                 THEN Attr("attribute", class_name, head)
                 ELSE IF rels # {}
                 THEN get_model_attribute((CHOOSE r \in rels : TRUE).class_name,
                                          Tail(name), t).attr
                 ELSE NoAttr
    IN [attr |-> attr, attr_name |-> [list |-> Len(name) > 1, segs |-> name]]

\* str(list) in an f-string: the text of a list, "['owner', 'name']", which
\* holds no dot and so is one segment.
ListText == "[list]"

\* f"{title_name}": the segments of what get_model_attribute returned as name.
NameText(attr_name) == IF attr_name.list THEN <<ListText>> ELSE attr_name.segs

\* A column of a view: its name (a path), its label and whether it is a row
\* action.  The label string.capwords(name.replace("_", " ")) is the name
\* it is made from.
ViewColumn(name, label, row_action) ==
    [name |-> name, label |-> label, row_action |-> row_action]

\* GridView.__init__, lines 113-130: the columns of a view that has no
\* configuration.
AutoColumns(model, t) ==
    LET members == Attributes(model) \o Computes(model)
        rels == Relationships(model)
    IN [i \in 1..Len(members) |-> ViewColumn(<<members[i]>>, members[i], FALSE)]
       \o [i \in 1..Len(rels) |->
              ViewColumn(<<rels[i].name>>
                           \o NameText(get_model_attribute(rels[i].class_name,
                                                           <<"_title">>, t).attr_name),
                         rels[i].name, FALSE)]

GridColumn(field, headerText, attr, type) ==
    [field |-> field, headerText |-> headerText, attr |-> attr, type |-> type]

UidColumn == GridColumn("uid", "UID", NoAttr, "key")
CheckboxColumn == GridColumn("", "", NoAttr, "checkbox")

\* GridView.__init__, lines 132-165: the grid's columns; col_attr.field_type
\* raises AttributeError when the column's path gave None.
Shown(view_columns) == SelectSeq(view_columns, LAMBDA c : ~c.row_action)

ColumnsRaise(model, view_columns, t) ==
    \E c \in Elems(Shown(view_columns)) :
        get_model_attribute(model, c.name, t).attr = NoAttr

GridColumns(model, view_columns, t) ==
    LET cols == Shown(view_columns) IN
    <<UidColumn>>
    \o [i \in 1..Len(cols) |->
           GridColumn(cols[i].name[1], cols[i].label,
                      get_model_attribute(model, cols[i].name, t).attr, "data")]

\* The checkbox column put last.
SelectionColumnsLast(modes, columns) ==
    IF "Selection" \in modes THEN columns \o <<CheckboxColumn>> ELSE columns

\* Lines 201-203: Selection mode inserts the checkbox column at index 0.
SelectionColumns(modes, columns) ==
    IF "Selection" \in modes THEN <<CheckboxColumn>> \o columns ELSE columns

GRID_DEFAULT_TOOLBAR_ITEMS == <<"search-on", "add">>
GRID_DEFAULT_MODES ==
    {"Sort", "Filter", "InfiniteScroll", "Toolbar", "Edit", "ForeignKey", "Selection"}

\* A value a dictionary may lack.
Absent == [has |-> FALSE, v |-> <<>>]
NoModes == [has |-> FALSE, v |-> {}]
Given(v) == [has |-> TRUE, v |-> v]

\* Lines 178-179: the modes of the view configuration, else the grid_modes
\* argument when it is not empty, else those of AppEnv.grid_settings, which
\* has none, so the default modes.
Modes(config, grid_modes) ==
    IF config.modes.has THEN config.modes.v
    ELSE IF grid_modes # {} THEN grid_modes ELSE GRID_DEFAULT_MODES

\* The title item put last.
ToolbarTitleLast(modes, config, toolbar_items, settings_items) ==
    LET a == IF config.toolbar.has THEN config.toolbar.v ELSE settings_items
        b == IF toolbar_items # <<>> THEN toolbar_items
             ELSE IF a # <<>> THEN a ELSE GRID_DEFAULT_TOOLBAR_ITEMS
    IN (IF "Toolbar" \in modes THEN b ELSE <<>>) \o <<"title">>

\* Lines 190-200: the ids of the toolbar's items.  An empty list and None
\* both count as false for "or".
Toolbar(modes, config, toolbar_items, settings_items) ==
    LET a == IF config.toolbar.has THEN config.toolbar.v ELSE settings_items
        b == IF toolbar_items # <<>> THEN toolbar_items
             ELSE IF a # <<>> THEN a ELSE GRID_DEFAULT_TOOLBAR_ITEMS
    IN <<"title">> \o (IF "Toolbar" \in modes THEN b ELSE <<>>)

\* GridView.__init__: the view that the arguments a make, or the error
\* raised.  The grid is constructed on an empty data source and is not
\* appended to any element.
GridView(a) ==
    LET config == IF a.view_config.has THEN a.view_config
                  ELSE [has |-> TRUE, columns |-> AutoColumns(a.model, a.title),
                        modes |-> NoModes, toolbar |-> Absent, pageSize |-> FALSE]
        modes == Modes(config, a.grid_modes)
    IN IF ColumnsRaise(a.model, config.columns, a.title)
       THEN [state |-> "raised", err |-> "AttributeError"]
       ELSE IF "Page" \in modes /\ ~config.pageSize
       THEN [state |-> "raised", err |-> "KeyError"]
       ELSE [state |-> "built", err |-> "",
             view_columns |-> config.columns,
             modes |-> modes,
             columns |-> SelectionColumns(modes,
                             GridColumns(a.model, config.columns, a.title)),
             toolbar |-> Toolbar(modes, config, a.toolbar_items, a.settings_items),
             dataSource |-> <<>>,
             mounted |-> FALSE]

\* The segments column paths are made of, and the paths.
Segs == {"name", "total", "customer", "owner", "foo"}
Paths == UNION {[1..n -> Segs] : n \in 1..MaxPath}

ModeSets == SUBSET {"Toolbar", "Selection", "Page"}

\* The columns of the view configurations.
ColumnConfigs ==
    {<<ViewColumn(<<"name">>, "Name", FALSE)>>,
     <<ViewColumn(<<"name">>, "Name", FALSE),
       ViewColumn(<<"customer", "name">>, "Customer", FALSE)>>,
     <<ViewColumn(<<"total">>, "Total", FALSE),
       ViewColumn(<<"customer", "owner", "name">>, "Owner", FALSE)>>,
     <<ViewColumn(<<"name">>, "Name", FALSE),
       ViewColumn(<<"details">>, "Details", TRUE)>>,
     <<ViewColumn(<<"name", "foo">>, "Name", FALSE)>>,
     <<ViewColumn(<<"name">>, "Name", FALSE),
       ViewColumn(<<"customer">>, "Customer", FALSE)>>,
     <<ViewColumn(<<"customer", "foo">>, "Customer", FALSE)>>}

ViewConfigs ==
    {[has |-> FALSE, columns |-> <<>>, modes |-> NoModes, toolbar |-> Absent,
      pageSize |-> FALSE]}
    \cup [has : {TRUE}, columns : ColumnConfigs,
          modes : {NoModes} \cup {Given(m) : m \in ModeSets},
          toolbar : {Absent, Given(<<>>), Given(<<"print", "add">>)},
          pageSize : BOOLEAN]

GridViewCalls ==
    [fn : {"GridView"}, model : {"Order"}, title : Titles,
     view_config : ViewConfigs, grid_modes : ModeSets,
     toolbar_items : {<<>>, <<"export", "add">>},
     settings_items : {<<>>, <<"search-on">>}]

ResolveCalls ==
    [fn : {"get_model_attribute"}, class_name : Classes,
     attr_name : Paths \cup {<<"_title">>}, title : Titles]

NotCalled == [state |-> "none"]

\* The objects a construction shares with its caller and with the module:
\* GRID_DEFAULT_TOOLBAR_ITEMS, the toolbar_items of AppEnv.grid_settings,
\* and the caller's toolbar_items and view_config.
NoShared ==
    [default |-> <<>>, settings |-> <<>>, toolbar_items |-> <<>>,
     view_config |-> [has |-> FALSE]]

SharedOf(a) ==
    [default |-> GRID_DEFAULT_TOOLBAR_ITEMS, settings |-> a.settings_items,
     toolbar_items |-> a.toolbar_items, view_config |-> a.view_config]

\* Lines 190-192: which list the toolbar is taken from; "new" is the [] of
\* line 195.
ToolbarSource(modes, sh) ==
    IF "Toolbar" \notin modes THEN "new"
    ELSE IF sh.toolbar_items # <<>> THEN "toolbar_items"
    ELSE IF sh.view_config.has /\ sh.view_config.toolbar.has
         THEN (IF sh.view_config.toolbar.v # <<>> THEN "config_toolbar" ELSE "default")
    ELSE IF sh.settings # <<>> THEN "settings" ELSE "default"

\* The toolbar being the source list itself.
ToolbarAlias(src) == src

\* Line 193, toolbar_items.copy(): a list of the construction's own.
ToolbarCopy(src) == "own"

\* Line 166, self.view_config.copy(): a dictionary of the construction's
\* own.
ConfigCopy(src) == "own"

\* list.insert(0, item) on the list ref of sh.
InsertFirst(sh, ref, item) ==
    CASE ref = "default" -> [sh EXCEPT !.default = <<item>> \o @]
      [] ref = "settings" -> [sh EXCEPT !.settings = <<item>> \o @]
      [] ref = "toolbar_items" -> [sh EXCEPT !.toolbar_items = <<item>> \o @]
      [] ref = "config_toolbar" -> [sh EXCEPT !.view_config.toolbar.v = <<item>> \o @]
      [] OTHER -> sh

\* GridView.__init__ on the shared objects sh: the view it makes and the
\* shared objects after it.  Lines 167 and 179 assign 'columns' and 'modes'
\* in the copy of the view_config, line 196 inserts the title item into
\* the toolbar list, line 203 the checkbox column into the list of line 130.
GridViewOn(a, sh) ==
    LET g == GridView([a EXCEPT !.toolbar_items = sh.toolbar_items,
                                !.settings_items = sh.settings,
                                !.view_config = sh.view_config])
        src == ToolbarSource(g.modes, sh)
        bar == IF src = "new" THEN "own" ELSE ToolbarCopy(src)
        cfg == IF sh.view_config.has THEN ConfigCopy("view_config") ELSE "own"
        s1 == IF cfg = "own" THEN sh
              ELSE [sh EXCEPT !.view_config.columns = g.columns,
                              !.view_config.modes = Given(g.modes)]
    IN IF g.state # "built" THEN [gv |-> g, shared |-> sh]
       ELSE [gv |-> g, shared |-> InsertFirst(s1, bar, "title")]

BuildInit ==
    /\ call \in GridViewCalls \cup ResolveCalls
    /\ gv = NotCalled
    /\ shared = NoShared
    /\ nBuilt = 0

\* The caller holds the arguments of a GridView and has constructed none.
FrameInit ==
    /\ call \in GridViewCalls
    /\ gv = NotCalled
    /\ shared = SharedOf(call)
    /\ nBuilt = 0

\* The caller constructs one more GridView from the objects it holds.
ConstructNext ==
    /\ nBuilt < MaxBuilds
    /\ LET r == GridViewOn(call, shared) IN
       /\ gv' = r.gv
       /\ shared' = r.shared
    /\ nBuilt' = nBuilt + 1
    /\ UNCHANGED <<fieldVars, gridVars, call, editVars, uploadVars>>

FrameNext == ConstructNext

\* GridView(...) is constructed.
Construct ==
    /\ gv = NotCalled /\ call.fn = "GridView"
    /\ gv' = GridView(call)
    /\ UNCHANGED <<fieldVars, gridVars, call, shared, nBuilt, editVars, uploadVars>>

\* get_model_attribute(class_name, attr_name) is called.
Resolve ==
    /\ gv = NotCalled /\ call.fn = "get_model_attribute"
    /\ gv' = [state |-> "returned"]
               @@ get_model_attribute(call.class_name, call.attr_name, call.title)
    /\ UNCHANGED <<fieldVars, gridVars, call, shared, nBuilt, editVars, uploadVars>>

BuildNext == Construct \/ Resolve

---------------------------------------------------------------------------
(* The control as the editor of a grid cell: the grid calls                *)
(* grid_edit_create, grid_edit_write, grid_edit_read and grid_edit_destroy *)
(* in this order for every cell the user edits.                            *)

\* No edit is under way.  el is self.edit_el, the number of the <input>
\* element grid_edit_create made last (0: None); at is the element the
\* widget self.control was appended to (0: none); has tells whether the row
\* of the last grid_edit_write had the column's field.
EditIdle == [ph |-> "idle", el |-> 0, at |-> 0, has |-> FALSE]

\* The values a row can hold for the field of the column.
RowValues(k, sel) == UserInputs(k, sel) \cup {Null}

grid_edit_create(e) == [e EXCEPT !.el = @ + 1, !.ph = "created"]

\* grid_edit_write(args): create_control(), then self.control.appendTo of
\* the element, then self.control.value = the row's value when the row has
\* the field.  self.control is None when create_control assigned no
\* control (RadioButtonInput, InlineMessage): appendTo raises.  The value
\* property of a CheckBox is the value of its form field, not its checked
\* state.
grid_edit_write(k, sel, st, has, v) ==
    LET s1 == CreateControl(k, sel, st) IN
    IF s1.ctl = 0 THEN [s1 EXCEPT !.err = TRUE]
    ELSE IF has /\ k # "Checkbox" THEN [s1 EXCEPT !.wval = v]
    ELSE s1

\* grid_edit_read: self.control.value, self.control.checked for a
\* CheckboxInput.
grid_edit_read(k, st) ==
    IF st.ctl = 0 THEN Ret([st EXCEPT !.err = TRUE], Error)
    ELSE Ret(st, st.wval)

grid_edit_destroy(st) == st

EDone(name, arg, res, e) ==
    /\ op' = [name |-> name, arg |-> arg, res |-> res]
    /\ prev' = op.name
    /\ c2' = C2Idle
    /\ edit' = e
    /\ UNCHANGED <<gridVars, buildVars, uploadVars>>

GridEditCreate ==
    /\ edit.ph = "idle"
    /\ edit.el < MaxWidgets
    /\ Apply(Cur)
    /\ EDone("grid_edit_create", Null, Null, grid_edit_create(edit))

GridEditWrite ==
    /\ edit.ph = "created"
    /\ nCreated + WidgetsOf(kind) <= MaxWidgets
    /\ \E has \in BOOLEAN : \E v \in (IF has THEN RowValues(kind, select) ELSE {Null}) :
        LET st == grid_edit_write(kind, select, Cur, has, v) IN
        /\ Apply([st EXCEPT !.err = FALSE])
        /\ EDone("grid_edit_write", v, IF st.err THEN Error ELSE Null,
                 [edit EXCEPT !.ph = "written", !.has = has,
                              !.at = IF st.err THEN @ ELSE edit.el])

\* The user gives the widget in the cell another value, and the widget
\* calls change().
EditorInput ==
    /\ edit.ph = "written"
    /\ ctl # 0
    /\ \E w \in UserInputs(kind, select) :
        LET s1 == [Cur EXCEPT !.wval = w] IN
        /\ Apply(change(kind, select, s1, hasCb, ChangeArg(kind, w)))
        /\ EDone("edit_user", w, ChangePayload(kind, select, s1, hasCb, ChangeArg(kind, w)),
                 edit)

GridEditRead ==
    /\ edit.ph = "written"
    /\ LET r == grid_edit_read(kind, Cur) IN
       /\ Apply([r.st EXCEPT !.err = FALSE])
       /\ EDone("grid_edit_read", Null, r.res, [edit EXCEPT !.ph = "read"])

GridEditDestroy ==
    /\ edit.ph \in {"written", "read"}
    /\ Apply(grid_edit_destroy(Cur))
    /\ EDone("grid_edit_destroy", Null, Null, [edit EXCEPT !.ph = "idle"])

EditNext ==
    \/ GridEditCreate
    \/ GridEditWrite
    \/ EditorInput
    \/ GridEditRead
    \/ GridEditDestroy

---------------------------------------------------------------------------
(* FileUploadInput: the uploaded files self._value as a sequence of        *)
(* descriptors [name, key], and the object store as the set of the keys it *)
(* holds.                                                                   *)

FileNames == {"a", "b"}
StorageTypes == {"aws_s3", "local"}

\* The files of one 'selected' event.
Batches == {b \in UNION {[1..n -> FileNames] : n \in 1..2} : TRUE}

NoFop == [name |-> "init", batch |-> <<>>, oks |-> <<>>, deleted |-> {},
          removed |-> {}, raised |-> FALSE]

Upl == [files |-> files, s3 |-> stored, nextKey |-> nextKey, deleted |-> {},
        removed |-> {}, raised |-> FALSE]

\* The index of the first descriptor of a file of this name, 0 when there
\* is none.
FirstNamed(fs, name) ==
    IF \E i \in DOMAIN fs : fs[i].name = name
    THEN CHOOSE i \in DOMAIN fs : fs[i].name = name /\ \A j \in 1..(i - 1) : fs[j].name # name
    ELSE 0

Without(fs, i) == [j \in 1..(Len(fs) - 1) |-> IF j < i THEN fs[j] ELSE fs[j + 1]]

\* remove_upload with the removal from self._value before the call of the
\* store.
remove_upload_local_first(u, name, fails) ==
    LET i == FirstNamed(u.files, name) IN
    IF i = 0 THEN u
    ELSE IF fails THEN [u EXCEPT !.files = Without(@, i), !.raised = TRUE]
    ELSE [u EXCEPT !.s3 = @ \ {u.files[i].key},
                   !.deleted = @ \cup {u.files[i].key},
                   !.files = Without(@, i),
                   !.removed = @ \cup {u.files[i]}]

\* remove_upload(args) for a file of this name: the first descriptor of the
\* name has its key deleted from the store, is removed from self._value and
\* is passed to control.remove.  AppEnv.aws_s3.delete_files raises when it
\* fails, and the statements after it are not executed.
remove_upload(u, name, fails) ==
    LET i == FirstNamed(u.files, name) IN
    IF i = 0 THEN u
    ELSE IF fails THEN [u EXCEPT !.raised = TRUE]
    ELSE [u EXCEPT !.s3 = @ \ {u.files[i].key},
                   !.deleted = @ \cup {u.files[i].key},
                   !.files = Without(@, i),
                   !.removed = @ \cup {u.files[i]}]

\* One turn of the loop of upload_files with the descriptor appended
\* whatever upload_file returned.
UploadOneUnchecked(u, name, ok, fails) ==
    [u EXCEPT !.nextKey = @ + 1,
              !.s3 = IF ok THEN @ \cup {u.nextKey} ELSE @,
              !.files = Append(@, [name |-> name, key |-> u.nextKey])]

\* One turn of the loop of upload_files: a key with a new uuid, then
\* AppEnv.aws_s3.upload_file, which returns whether it succeeded.
UploadOne(u, name, ok, fails) ==
    LET u1 == [u EXCEPT !.nextKey = @ + 1] IN
    IF ok
    THEN [u1 EXCEPT !.s3 = @ \cup {u.nextKey},
                    !.files = Append(@, [name |-> name, key |-> u.nextKey])]
    ELSE remove_upload(u1, name, fails)

\* upload_files(args) from file i of the batch on; an exception ends the
\* loop.
RECURSIVE upload_from(_, _, _, _, _)
upload_from(u, batch, oks, fails, i) ==
    IF i > Len(batch) \/ u.raised THEN u
    ELSE upload_from(UploadOne(u, batch[i], oks[i], fails[i]), batch, oks, fails, i + 1)

upload_files(st, u, batch, oks, fails) ==
    IF st = "aws_s3" THEN upload_from(u, batch, oks, fails, 1) ELSE u

UDone(name, batch, oks, u) ==
    /\ files' = u.files
    /\ stored' = u.s3
    /\ nextKey' = u.nextKey
    /\ fop' = [name |-> name, batch |-> batch, oks |-> oks, deleted |-> u.deleted,
               removed |-> u.removed, raised |-> u.raised]
    /\ UNCHANGED <<fieldVars, gridVars, buildVars, editVars, storage>>

UploadInit ==
    /\ storage \in StorageTypes
    /\ files = <<>>
    /\ stored = {}
    /\ nextKey = 1
    /\ fop = NoFop

\* The user selects files in the widget: the 'selected' event.
Selected ==
    \E batch \in Batches :
        /\ nextKey + Len(batch) - 1 <= MaxFiles
        /\ \E oks \in [DOMAIN batch -> BOOLEAN] : \E fails \in [DOMAIN batch -> BOOLEAN] :
            UDone("upload", batch, oks, upload_files(storage, Upl, batch, oks, fails))

\* The user removes a file in the widget: the 'removing' event.
Removing ==
    \E name \in FileNames : \E fails \in BOOLEAN :
        UDone("remove", <<name>>, <<>>, remove_upload(Upl, name, fails))

\* The lists of descriptors a caller assigns to the value, those of a
\* saved record for one: a descriptor has a key this control made before
\* (1..k-1), or the key 0 of a file that another control uploaded.
CallerLists(k) ==
    {<<>>} \cup {<<[name |-> n, key |-> j]>> : n \in FileNames, j \in 0..(k - 1)}

\* FileUploadInput.value setter: self._value = value.
SetFiles ==
    \E v \in CallerLists(nextKey) :
        UDone("set", <<>>, <<>>, [Upl EXCEPT !.files = v])

UploadNext == Selected \/ Removing \/ SetFiles

---------------------------------------------------------------------------
(* Specifications: the input control alone, the grid alone, the            *)
(* construction of a grid alone, the control as a cell editor alone, and   *)
(* the upload widget alone.                                                 *)

FieldParked ==
    /\ kind = "Text" /\ select = "single" /\ hasCb = FALSE
    /\ cval = Null /\ cen = TRUE /\ visible = FALSE /\ ctl = 0
    /\ wval = Null /\ wen = TRUE /\ rctl = FALSE /\ rchk = {}
    /\ message = Null /\ dom = "" /\ nCreated = 0 /\ nDestroyed = 0
    /\ options = <<>>
    /\ op = [name |-> "init", arg |-> Null, res |-> Null]
    /\ prev = "init" /\ c2 = C2Idle

GridParked ==
    /\ gstate = "Built"
    /\ store = [u \in Uids |-> 0]
    /\ nextUid = 1
    /\ rows = <<>>
    /\ filters = Contents
    /\ fx = NoFx
    /\ gop = [name |-> "init", uid |-> 0, c |-> 0, isNew |-> FALSE]

BuildParked ==
    /\ call = [fn |-> ""]
    /\ gv = NotCalled
    /\ shared = NoShared
    /\ nBuilt = 0

EditParked == edit = EditIdle

UploadParked ==
    /\ storage = "aws_s3" /\ files = <<>> /\ stored = {} /\ nextKey = 1 /\ fop = NoFop

Init == FieldInit /\ GridParked /\ BuildParked /\ EditParked /\ UploadParked
Next == FieldNext
Spec == Init /\ [][Next]_vars

InitGrid == GridInit /\ FieldParked /\ BuildParked /\ EditParked /\ UploadParked
SpecGrid == InitGrid /\ [][GridNext]_vars

InitBuild == BuildInit /\ FieldParked /\ GridParked /\ EditParked /\ UploadParked
SpecBuild == InitBuild /\ [][BuildNext]_vars

InitEdit == FieldInit /\ edit = EditIdle /\ GridParked /\ BuildParked /\ UploadParked
SpecEdit == InitEdit /\ [][EditNext]_vars

InitUpload == UploadInit /\ FieldParked /\ GridParked /\ BuildParked /\ EditParked
SpecUpload == InitUpload /\ [][UploadNext]_vars

InitFrame == FrameInit /\ FieldParked /\ GridParked /\ EditParked /\ UploadParked
SpecFrame == InitFrame /\ [][FrameNext]_vars

InitConv == ConvInit /\ GridParked /\ BuildParked /\ EditParked /\ UploadParked
SpecConv == InitConv /\ [][ConvNext]_vars

---------------------------------------------------------------------------
(* Properties of the input control (Spec)                                  *)

\* The control has a live widget.
HasWidget == IF kind = "Radio" THEN rctl ELSE ctl # 0

\* What the value getter would return now.
Read == ValueGet(kind, select, Cur).res

\* The domain value an accepted input stands for.
DomainOf(k, v) ==
    CASE v = Null -> Null
      [] k = "Date" -> DateFromInput(v)
      [] k \in {"DateTime", "Time"} -> DateTimeFromInput(v)
      [] OTHER -> v

\* A domain value cut to the precision of the variant: whole seconds for
\* DateTime, hour and minute on 1970-01-01 for Time.
Precision(k, v) ==
    CASE v = Null -> Null
      [] k = "DateTime" -> V("dt", (v.n \div MsPerSec) * MsPerSec)
      [] k = "Time" -> V("dt", ((v.n \div MinuteMs) % (24 * 60)) * MinuteMs)
      [] OTHER -> v

\* The widget's current value as a domain value.
WidgetDomain ==
    CASE kind = "Radio" -> IF rchk = {} THEN Null ELSE V("val", RadioChecked(rchk))
      [] wval = Null -> Null
      [] kind = "Date" -> DateFromWidget(wval)
      [] kind = "DateTime" -> DateTimeFromWidget(wval)
      [] kind = "Time" -> TimeFromWidget(wval)
      [] kind = "Lookup" -> IF select = "single" THEN GetDataByValue(options, wval.n)
                            ELSE V("opts", HeldMask(options, wval.n))
      [] OTHER -> wval

\* C1: for every variant, after value was set to v while no widget exists, a
\* read of value returns v (v is the cached value, which the first show()
\* then pushes into the new widget).
C1_SetWithoutWidgetIsCached ==
    (op.name = "set" /\ ~HasWidget) => Read = DomainOf(kind, op.arg)

\* C2: for every variant, after show(); set value v; set enabled e; hide();
\* show() with nothing in between, the value getter (which reads the widget)
\* reports v and the enabled flag, cached and of the widget, is e.
C2_HideShowPreserves ==
    c2.ph = 5 =>
        /\ Read = Precision(kind, DomainOf(kind, c2.v))
        /\ cen = c2.e
        /\ ctl # 0 => wen = c2.e

\* C3: destroy() leaves the control unmounted with its widget handle released,
\* and a show() that follows creates a widget, mounts it and gives it the
\* control's enabled flag.
C3_DestroyThenShow ==
    /\ op.name = "destroy" => (ctl = 0 /\ ~visible)
    /\ (prev = "destroy" /\ op.name = "show" /\ kind \notin {"Radio", "InlineMessage"})
          => (ctl # 0 /\ visible /\ dom = "html" /\ wen = cen)

\* C4: for every variant with a live widget, the value read right after value
\* was set to v is v (cut to the variant's precision for the date and time
\* variants), whatever was set and read before.
C4_SetThenReadMounted ==
    (op.name = "set" /\ op.res # Error /\ HasWidget)
        => Read = Precision(kind, DomainOf(kind, op.arg))

\* C5: once a control has a live widget, a read of value returns the widget's
\* current value as a domain value, null when the widget holds none; never a
\* cached value that differs from it.
C5_ReadSyncsFromWidget ==
    (HasWidget /\ kind \notin {"FileUpload", "InlineMessage"}) => Read = WidgetDomain

\* C6: for every variant, a read of value while no widget exists returns the
\* cached value.
C6_ReadWithoutWidgetIsCached ==
    (op.name = "get" /\ ~HasWidget) => op.res = cval

\* C7: show() on a control that is already visible changes nothing: no
\* widget is created, the container is not rewritten, and the cached value,
\* the widget's value, the enabled flag and the widget handle stay as they are.
C7_ShowIdempotent ==
    [][(op'.name = "show" /\ visible) =>
          UNCHANGED <<cval, cen, visible, ctl, wval, wen, rctl, rchk, message, dom,
                      nCreated>>]_vars

\* A show() of a visible control right after its widget was given a value
\* that the cache does not hold.
C7_Witness ==
    /\ op.name = "show" /\ prev \in {"set", "user"}
    /\ visible /\ ctl # 0 /\ wval # cval

\* C8: for every variant, a read of enabled returns the cached flag, a
\* boolean, with or without a widget.
C8_EnabledReadIsFlag ==
    op.name = "getEnabled" => op.res = Bool(cen)

---------------------------------------------------------------------------
(* Properties of the grid (SpecGrid)                                       *)

\* C9: update_grid(record, True) makes the grid one row longer, puts the
\* record's row view on top and leaves the rows that were there as they were,
\* in their order; the rows are not fetched again.
C9_AddPatchesOneRow ==
    [][(gop'.name = "update_grid" /\ gop'.isNew) =>
          /\ Len(rows') = Len(rows) + 1
          /\ rows'[1] = get_row_view(Record(gop'.uid, gop'.c))
          /\ \A i \in 1..Len(rows) : rows'[i + 1] = rows[i]]_vars

\* An add patched into a grid whose other rows differ from the backing model.
C9_Witness ==
    /\ gop.name = "update_grid" /\ gop.isNew
    /\ Len(rows) >= 2
    /\ rows # get_grid_view(store, filters)
    /\ Tail(rows) # get_grid_view([store EXCEPT ![gop.uid] = 0], Contents)

\* C10: update_grid(record, False) keeps the number of rows and replaces the
\* row whose uid is the record's; every other row stays as it was.
C10_EditPatchesOneRow ==
    [][(gop'.name = "update_grid" /\ ~gop'.isNew) =>
          /\ Len(rows') = Len(rows)
          /\ \A i \in 1..Len(rows) :
                rows'[i] = IF rows[i].uid = gop'.uid
                           THEN get_row_view(Record(gop'.uid, gop'.c))
                           ELSE rows[i]]_vars

\* An edit patched into a grid of several rows that holds the record's row,
\* with another row that differs from the backing model.
C10_Witness ==
    /\ gop.name = "update_grid" /\ ~gop.isNew
    /\ Len(rows) >= 2
    /\ \E i \in 1..Len(rows) : rows[i] = get_row_view(Record(gop.uid, gop.c))
    /\ \E i \in 1..Len(rows) : rows[i].uid # gop.uid /\ store[rows[i].uid] # rows[i].c

\* C11: a begin-edit or add of the grid delivers actionBegin and
\* actionComplete to grid_action_handler: actionBegin opens no form and
\* leaves the built-in dialog; actionComplete closes the dialog and opens
\* exactly one form.  A toolbar 'add' click opens exactly one form.  The form
\* is <model>Form when it is registered, else the generic FormBase; its action
\* is 'edit' with the record fetched by the row's uid for a begin-edit, 'add'
\* with no record otherwise; its submit callback is update_grid.
C11_OneFormPerRowAction ==
    LET rowAction == gop.name = "row_action" /\ fx.req \in {"beginEdit", "add"}
        expected ==
            [cls |-> IF fx.reg THEN "ModelForm" ELSE "FormBase",
             action |-> IF fx.req = "beginEdit" THEN "edit" ELSE "add",
             data |-> IF fx.req = "beginEdit" /\ store[gop.uid] # 0
                      THEN [uid |-> gop.uid, c |-> store[gop.uid]]
                      ELSE NoRecord,
             update_source |-> "update_grid"]
    IN /\ (rowAction /\ fx.type = "actionBegin") =>
              (fx.opened = <<>> /\ ~fx.closed)
       /\ (rowAction /\ fx.type = "actionComplete" /\ ~fx.failed) =>
              (fx.closed /\ fx.opened = <<expected>>)
       /\ (gop.name = "toolbar_click" /\ fx.id = "add") =>
              (~fx.closed /\ fx.opened = <<expected>>)

\* The completion of a begin-edit has opened the registered form on the
\* record of the backing model, which differs from the row the grid shows.
C11_Witness ==
    /\ gop.name = "row_action" /\ fx.type = "actionComplete"
    /\ fx.req = "beginEdit" /\ fx.reg
    /\ Len(fx.opened) = 1
    /\ fx.opened[1].data.uid = gop.uid
    /\ \E i \in 1..Len(rows) :
          rows[i].uid = gop.uid /\ rows[i].c # fx.opened[1].data.c

\* C12: a delete completion whose calls of the backing model do not raise
\* deletes exactly the selected records: a selected uid that does not
\* resolve is skipped, the other selected records are deleted, and no record
\* outside the selection changes.
C12_DeleteExactlySelected ==
    [][(gop'.name = "delete" /\ ~fx'.failed) =>
          /\ store' = [u \in Uids |-> IF u \in fx'.sel THEN 0 ELSE store[u]]
          /\ fx'.skipped = {u \in fx'.sel : store[u] = 0}]_vars

\* A delete of two rows of which one no longer resolved.
C12_Witness ==
    /\ gop.name = "delete" /\ ~fx.failed
    /\ fx.skipped # {}
    /\ fx.sel \ fx.skipped # {}
    /\ \A u \in fx.sel : store[u] = 0

\* C13: when a call of the backing model raises during a row action, no
\* record has been deleted: for a delete of several rows, no part of the
\* selected records is gone while the others remain.
C13_NoPartialDelete ==
    [][(gop'.name \in {"row_action", "delete"} /\ fx'.failed) =>
          store' = store]_vars

\* C14: Destroyed is terminal: a destroyed grid is not mounted again, its
\* rows do not change and no operation fetches from the backing model.
C14_DestroyedIsTerminal ==
    [][gstate = "Destroyed" =>
          /\ gstate' = "Destroyed"
          /\ rows' = rows
          /\ gop'.name \notin {"form_show", "form_show_refused"}]_vars

\* C15: a form_show that completes makes the rows exactly the rows fetched
\* from the backing model with the configured filters and leaves the grid
\* Shown; a form_show whose fetch raises changes neither the rows nor the
\* mount.
C15_ShowReloads ==
    [][/\ gop'.name = "form_show" =>
            (rows' = get_grid_view(store, filters) /\ gstate' = "Shown")
       /\ gop'.name = "form_show_failed" =>
            (rows' = rows /\ gstate' = gstate)]_vars

\* A form_show of a filtered view: a record of the backing model is not
\* among the rows, and the rows are those of the fetch.
C15_Witness ==
    /\ gop.name = "form_show"
    /\ filters # Contents
    /\ rows # <<>>
    /\ \E u \in Uids : store[u] # 0 /\ store[u] \notin filters

\* The toolbar ids for which the caller has a handler.
CallerHandlers == {"export"}

\* C17: a toolbar click on an id other than 'add' and 'search-on' calls the
\* caller's handler for that id; with no handler it does nothing.
C17_OtherIdsDispatched ==
    (gop.name = "toolbar_click" /\ fx.id \notin {"add", "search-on"}) =>
        /\ fx.called = (IF fx.id \in CallerHandlers THEN fx.id ELSE "")
        /\ fx.opened = <<>> /\ ~fx.search

\* C21: a read of a DateTime control that follows a set of a date-time on
\* the control with a widget returns the value set cut to whole seconds, and
\* the set gave the widget that whole-second timestamp.
C21_DateTimeWholeSeconds ==
    [][(kind = "DateTime" /\ ctl # 0 /\ op.name = "set" /\ op.arg # Null
          /\ op'.name = "get") =>
          /\ wval = V("ts", (DateTimeFromInput(op.arg).n \div MsPerSec) * MsPerSec)
          /\ wval.n % MsPerSec = 0
          /\ op'.res = V("dt", (DateTimeFromInput(op.arg).n \div MsPerSec) * MsPerSec)]_vars

\* A read after the set of a date-time with 500 milliseconds: the value read
\* is not the value set.
C21_Witness ==
    /\ kind = "DateTime" /\ ctl # 0
    /\ op.name = "get" /\ prev = "set"
    /\ op.res = V("dt", 2000)

\* C22: the value of a Time control has no seconds: the value given to the
\* widget and every value read, with a widget or without, is a whole number
\* of minutes.
C22_TimeHasNoSeconds ==
    kind = "Time" =>
        /\ (op.name = "get" /\ op.res # Null) => op.res.n % MinuteMs = 0
        /\ (op.name \in {"set", "show"} /\ ctl # 0 /\ wval # Null) =>
               wval.n % MinuteMs = 0

\* C23: with a widget, a read of enabled of a Checkbox returns the negation
\* of the widget's disabled flag.
C23_CheckboxEnabledRead ==
    (kind = "Checkbox" /\ ctl # 0 /\ op.name = "getEnabled") => op.res = Bool(wen)

\* C24: with the option widgets constructed, at most one option is checked,
\* and a read that follows a set returns the value set.
C24_RadioReadsLastSet ==
    [][(kind = "Radio" /\ rctl) =>
          /\ Cardinality(rchk) <= 1
          /\ (op.name = "set" /\ op'.name = "get") => op'.res = op.arg]_vars

\* C25: a multi-select Dropdown or Lookup with a widget that is set to a
\* list of option objects gives the widget the list of their identifiers.
C25_MultiStoresIds ==
    (kind \in {"Dropdown", "Lookup"} /\ select = "multi" /\ ctl # 0
       /\ op.name = "set" /\ op.arg.t = "opts" /\ op.arg.n # 0) =>
        wval = V("uids", op.arg.n)

\* C29: when the user changes the widget's value, the callback is called
\* with the control's current value, with null only when the value was
\* cleared; without a callback nothing is called.
C29_ChangeCallsBack ==
    op.name = "user" =>
        op.res = (IF ~hasCb THEN NoCall
                  ELSE IF op.arg = Null THEN Null ELSE Read)

\* C26: when the add-item form of a Lookup with a widget completes with a
\* new record, the record's option is first in the option list before the
\* earlier options in their order, and the widget's selection is that
\* option (single) or the earlier selection and that option (multi); when
\* it completes with no record nothing changes.
C26_NewItemSelected ==
    [][(op'.name = "new_item" /\ ctl # 0) =>
          IF op'.arg = Null
          THEN options' = options /\ wval' = wval /\ cval' = cval
          ELSE /\ options' = <<op'.arg.n>> \o options
               /\ select = "single" => wval' = op'.arg
               /\ select = "multi" =>
                     wval' = V("uids", (IF wval = Null THEN 0 ELSE wval.n)
                                       + Bit(op'.arg.n))]_vars

\* C34: a form that the grid opened with action 'edit' has a record as
\* its data.
C34_EditFormHasRecord ==
    \A i \in DOMAIN fx.opened :
        fx.opened[i].action = "edit" => fx.opened[i].data # NoRecord

\* The widgets the control refers to: self._control, and for a
\* RadioButtonInput the 'control' of each option.
Held ==
    IF kind = "Radio" THEN (IF rctl THEN Cardinality(RadioValues) ELSE 0)
    ELSE (IF ctl # 0 THEN 1 ELSE 0)

\* C32: every widget the control constructed and did not destroy is one
\* the control refers to.
C32_NoWidgetLeftBehind == nCreated - nDestroyed = Held

---------------------------------------------------------------------------
(* Properties of constructions one after the other (SpecFrame)             *)

Count(seq, x) == Cardinality({i \in DOMAIN seq : seq[i] = x})

\* C35: a construction leaves the module's default toolbar list, the
\* toolbar list of the settings, the caller's toolbar_items and the
\* caller's view_config as they were, and the GridView it makes has one
\* title item in its toolbar and at most one checkbox column.
C35_ConstructionLeavesConfig ==
    [][nBuilt' = nBuilt + 1 =>
          /\ shared' = shared
          /\ shared' = SharedOf(call)
          /\ gv'.state = "built" =>
                /\ Count(gv'.toolbar, "title") = 1
                /\ Count(gv'.columns, CheckboxColumn) <= 1]_vars

\* A second GridView was constructed from the module's default toolbar
\* list, in Selection mode.
C35_Witness ==
    /\ nBuilt = 2 /\ gv.state = "built"
    /\ call.toolbar_items = <<>> /\ ~call.view_config.has /\ call.settings_items = <<>>
    /\ gv.toolbar = <<"title">> \o GRID_DEFAULT_TOOLBAR_ITEMS
    /\ Count(gv.columns, CheckboxColumn) = 1

---------------------------------------------------------------------------
(* Properties of the conversion of strings (SpecConv)                      *)

\* C31: an operation of a Date, DateTime or Time control that has to
\* convert a string that is no ISO date or time (the value setter given
\* the string, or show() of a control constructed with it) raises the
\* error holding the string, and leaves the cached value, the widget and
\* its value, the container and the visible flag as they were.
C31_BadStringAbortsOperation ==
    [][((op'.name = "set" /\ op'.arg \in Unparseable)
        \/ (op'.name = "show" /\ ~visible /\ cval \in Unparseable))
       => /\ op'.res = ValueError(IF op'.name = "set" THEN op'.arg ELSE cval)
          /\ cval' = cval /\ wval' = wval /\ ctl' = ctl /\ nCreated' = nCreated
          /\ dom' = dom /\ visible' = visible]_vars

---------------------------------------------------------------------------
(* Properties of the control as a cell editor (SpecEdit)                   *)

\* C30: grid_edit_write leaves the control with a widget made by this call,
\* appended to the element of the preceding grid_edit_create, holding the
\* row's value of the field when the row has the field and the value of a
\* new widget otherwise; grid_edit_read returns the value of that widget.
C30_FreshEditorPerEdit ==
    [][/\ op'.name = "grid_edit_write" =>
            /\ nCreated' > nCreated
            /\ ctl' = nCreated'
            /\ edit'.at = edit.el
            /\ wval' = (IF edit'.has THEN op'.arg ELSE NewWidgetValue(kind))
       /\ op'.name = "grid_edit_read" =>
            /\ ctl = nCreated /\ edit.at = edit.el
            /\ op'.res = wval]_vars

---------------------------------------------------------------------------
(* Properties of the upload widget (SpecUpload)                            *)

\* The descriptors of the files of a batch whose upload succeeded, in the
\* order of the batch, file i having the key k + i - 1.
RECURSIVE Uploaded(_, _, _, _)
Uploaded(batch, oks, k, i) ==
    IF i > Len(batch) THEN <<>>
    ELSE (IF oks[i] THEN <<[name |-> batch[i], key |-> k + i - 1]>> ELSE <<>>)
         \o Uploaded(batch, oks, k, i + 1)

\* C27: after a 'selected' event the uploaded files are the ones before it
\* followed by the descriptors of the files of the batch whose upload
\* succeeded, and the handler deleted nothing from the store.
C27_FailedUploadLeavesValue ==
    [][(fop'.name = "upload" /\ storage = "aws_s3") =>
          /\ files' = files \o Uploaded(fop'.batch, fop'.oks, nextKey, 1)
          /\ fop'.deleted = {}
          /\ stored \subseteq stored']_vars

\* C28: a 'removing' event for a name with no descriptor changes nothing;
\* otherwise, when the store's delete fails, the uploaded files are
\* unchanged and nothing was passed to control.remove, and when it
\* succeeds, exactly the first descriptor of the name is gone from the
\* uploaded files, it is the one passed to control.remove, and its key is
\* the one deleted from the store.
C28_RemoveAfterStoreDelete ==
    [][fop'.name = "remove" =>
          LET i == FirstNamed(files, fop'.batch[1]) IN
          IF i = 0 \/ fop'.raised
          THEN /\ files' = files /\ stored' = stored
               /\ fop'.removed = {} /\ fop'.deleted = {}
               /\ fop'.raised => i # 0
          ELSE /\ files' = Without(files, i)
               /\ Len(files') = Len(files) - 1
               /\ fop'.deleted = {files[i].key}
               /\ stored' = stored \ {files[i].key}
               /\ fop'.removed = {files[i]}]_vars

\* Every descriptor of the value has a key the store holds: one this
\* control uploaded and did not delete.
KeysStored == \A i \in DOMAIN files : files[i].key \in stored

C28_Witness ==
    /\ fop.name = "remove"
    /\ \E i \in DOMAIN files : files[i].name = fop.batch[1]
    /\ \/ ~fop.raised /\ fop.removed # {}
       \/ fop.raised /\ Len(files) = 2

---------------------------------------------------------------------------
(* Properties of the construction (SpecBuild)                              *)

\* C16: a constructed GridView has the title item first in its toolbar and
\* nowhere else; its checkbox column is the one at index 0 when Selection is
\* among the modes, and it has none otherwise; its data source is empty and
\* it is not mounted.
C16_Constructed ==
    gv.state = "built" =>
        /\ {i \in DOMAIN gv.toolbar : gv.toolbar[i] = "title"} = {1}
        /\ {i \in DOMAIN gv.columns : gv.columns[i].type = "checkbox"}
              = (IF "Selection" \in gv.modes THEN {1} ELSE {})
        /\ gv.dataSource = <<>>
        /\ ~gv.mounted

\* A grid constructed with the Toolbar and Selection modes from a view
\* configuration of two columns, with the caller's toolbar items.
C16_Witness ==
    /\ gv.state = "built"
    /\ {"Toolbar", "Selection"} \subseteq gv.modes
    /\ call.view_config.has
    /\ Len(gv.toolbar) = 3 /\ gv.toolbar[2] = "export"
    /\ Len(gv.columns) = 4

\* C18: a GridView with no view configuration derives one column per
\* attribute, one per computed attribute and one per relationship, the
\* last named by the relationship and the title of its model and labelled
\* from the relationship.
C18_AutoColumns ==
    (call.fn = "GridView" /\ ~call.view_config.has /\ gv.state # "none") =>
        /\ gv.state = "raised" => gv.err = "KeyError"
        /\ gv.state = "built" =>
              /\ [i \in DOMAIN gv.view_columns |-> gv.view_columns[i].name]
                    = << <<"name">>, <<"amount">>, <<"total">>,
                         <<"customer">> \o call.title >>
              /\ gv.view_columns[4].label = "customer"

\* Every segment of the path names an attribute, a computed attribute or a
\* relationship of the model in scope; after an attribute no model is in scope.
RECURSIVE EverySegmentResolves(_, _)
EverySegmentResolves(cls, path) ==
    IF path = <<>> THEN TRUE
    ELSE IF Head(path) \in Elems(Attributes(cls)) \cup Elems(Computes(cls))
    THEN Len(path) = 1
    ELSE \E r \in Elems(Relationships(cls)) :
            r.name = Head(path) /\ EverySegmentResolves(r.class_name, Tail(path))

\* C19: a path with a segment that does not resolve gives no attribute, and
\* a view configuration with such a column cannot be constructed.
C19_UnresolvedPathFails ==
    /\ (call.fn = "get_model_attribute" /\ gv.state = "returned"
          /\ call.attr_name # <<"_title">>
          /\ ~EverySegmentResolves(call.class_name, call.attr_name))
        => gv.attr = NoAttr
    /\ (call.fn = "GridView" /\ gv.state # "none" /\ call.view_config.has
          /\ \E c \in Elems(Shown(call.view_config.columns)) :
                ~EverySegmentResolves(call.model, c.name))
        => gv.state = "raised"

\* C20: a Date control reads a calendar date or null, whatever the shape of
\* the value it was constructed with or set to.
C20_DateReadsDate ==
    (kind = "Date" /\ op.name = "get") => op.res.t \in {"date", "null"}

===========================================================================
